---- MODULE Spec2Model ----
(***************************************************************************)
(* torch/distributed/_shard/api.py: sharding of tensors, parameters and    *)
(* whole modules across the ranks of a process group, the forward hooks    *)
(* shard_module installs, and the load_with_process_group scope.           *)
(*                                                                         *)
(* Three specifications share the definitions below:                       *)
(*   Spec       the ranks of one group each run one call (_shard_tensor,   *)
(*              shard_parameter or shard_module) and meet at all_gather;   *)
(*   SpecScope  one process enters and leaves load_with_process_group;     *)
(*   SpecHooks  one module gets its hooks and runs forward computations.   *)
(***************************************************************************)
EXTENDS Naturals, Integers, Sequences, FiniteSets, TLC

\* Number of ranks of the process group (dist.get_world_size(pg)).
WorldSize == 2
\* Most scope operations (enter, exit, read) in one behaviour of SpecScope.
MaxOps == 4
\* Most dimensions of a local shard in SpecHooks.
MaxRank == 2

Ranks == 0 .. (WorldSize - 1)

\* Python's None, as a value of the same sort as every other object.
None == [kind |-> "None"]

-----------------------------------------------------------------------------
(* Values: sharding specifications, tensors, sharded tensors.              *)

ChunkShardingSpec(d) == [type |-> "ChunkShardingSpec", dim |-> d]
EnumerableShardingSpec == [type |-> "EnumerableShardingSpec"]

\* A dense parameter object: id is its identity, contiguous its layout.
Parameter(i, c) == [kind |-> "Parameter", id |-> i, contiguous |-> c]
\* A plain tensor attribute (no torch.nn.Parameter).
Tensor(i, c) == [kind |-> "Tensor", id |-> i, contiguous |-> c]
\* An attribute that is no tensor (a sub-module, a string, ...).
NonTensor == [kind |-> "NonTensor"]

\* isinstance(v, torch.Tensor), over the values an attribute holds here.
isinstance_Tensor(v) == v.kind \in {"Parameter", "Tensor"}
is_contiguous(v) == v.contiguous

\* sharding_spec.shard(tensor, src_rank, process_group): the sharded value
\* remembers its specification (st._sharding_spec); oid is its identity.
ShardingSpec_shard(tensor, sharding_spec, src_rank, oid) ==
    [kind |-> "ShardedTensor", sharding_spec |-> sharding_spec,
     src_rank |-> src_rank, tensor |-> tensor.id, oid |-> oid,
     contiguous |-> TRUE]

-----------------------------------------------------------------------------
(* Ordered dictionaries (mod._parameters): sequences of [k, v] entries.    *)

Keys(d) == [i \in 1 .. Len(d) |-> d[i].k]
HasKey(d, k) == \E i \in 1 .. Len(d) : d[i].k = k
Lookup(d, k) == d[CHOOSE i \in 1 .. Len(d) : d[i].k = k].v
DelKey(d, k) == SelectSeq(d, LAMBDA e : e.k # k)
SetKey(d, k, v) ==
    IF HasKey(d, k)
    THEN [i \in 1 .. Len(d) |-> IF d[i].k = k THEN [k |-> k, v |-> v] ELSE d[i]]
    ELSE Append(d, [k |-> k, v |-> v])

-----------------------------------------------------------------------------
(* torch.nn.Module as this file uses it: a parameter table, the plain      *)
(* attributes of __dict__, the registered forward hooks.                   *)

Module(parameters, modules) == [_parameters |-> parameters, _modules |-> modules]
Entry(k, v) == [k |-> k, v |-> v]

\* The per-module state a rank mutates in place.
ModuleState(parameters, dict) ==
    [_parameters |-> parameters, dict |-> dict, _forward_hooks |-> <<>>]

\* hasattr / getattr: __dict__ first, then Module.__getattr__ on _parameters.
Module_hasattr(m, name) == HasKey(m.dict, name) \/ HasKey(m._parameters, name)
Module_getattr(m, name) ==
    IF HasKey(m.dict, name) THEN Lookup(m.dict, name) ELSE Lookup(m._parameters, name)

\* Module.__delattr__: a parameter leaves _parameters, anything else __dict__.
Module_delattr(m, name) ==
    IF HasKey(m._parameters, name)
    THEN [m EXCEPT !._parameters = DelKey(m._parameters, name)]
    ELSE [m EXCEPT !.dict = DelKey(m.dict, name)]

\* Module.__setattr__ of a value that is no torch.nn.Parameter: refused
\* (TypeError) while the name is still in _parameters, else stored in __dict__.
Module_setattr_refused(m, name) == HasKey(m._parameters, name)
Module_setattr(m, name, value) == [m EXCEPT !.dict = SetKey(m.dict, name, value)]

\* module.named_modules(): pre-order, parent before children, children in
\* their declared order, each with its dotted path (a sequence of names).
RECURSIVE named_modules(_, _), named_children(_, _, _)
named_modules(module, prefix) ==
    <<[prefix |-> prefix, mod |-> module]>> \o named_children(module, prefix, 1)
named_children(module, prefix, i) ==
    IF i > Len(module._modules) THEN <<>>
    ELSE named_modules(module._modules[i].v, Append(prefix, module._modules[i].k))
         \o named_children(module, prefix, i + 1)

Prefixes(tree) ==
    LET nm == named_modules(tree, <<>>) IN {nm[i].prefix : i \in 1 .. Len(nm)}
NodeAt(tree, prefix) ==
    LET nm == named_modules(tree, <<>>)
    IN nm[CHOOSE i \in 1 .. Len(nm) : nm[i].prefix = prefix].mod

\* The state of a freshly built module tree, keyed by module path.
InitialModules(tree) ==
    [prefix \in Prefixes(tree) |-> ModuleState(NodeAt(tree, prefix)._parameters, <<>>)]

-----------------------------------------------------------------------------
(* The module trees, plans and arguments the ranks are started with.       *)

P1 == Parameter(1, TRUE)
P2 == Parameter(2, TRUE)
P3 == Parameter(3, TRUE)
P4 == Parameter(4, TRUE)
P5 == Parameter(5, FALSE)

\* Two layers, no sharing; head.bias is None.
TwoLayer ==
    Module(<<>>,
      << Entry("linear", Module(<<Entry("weight", P1), Entry("bias", P2)>>, <<>>)),
         Entry("head", Module(<<Entry("weight", P3), Entry("bias", None)>>, <<>>)) >>)

\* P1 is linear.weight, linear.tied (same module) and head.weight (another).
Tied ==
    Module(<<>>,
      << Entry("linear", Module(<<Entry("weight", P1), Entry("bias", P2),
                                  Entry("tied", P1)>>, <<>>)),
         Entry("head", Module(<<Entry("weight", P1), Entry("bias", None)>>, <<>>)) >>)

\* A nested child sharing its parent's weight, and a non-contiguous bias.
Nested ==
    Module(<<Entry("weight", P4)>>,
      << Entry("linear", Module(<<Entry("weight", P1)>>,
            << Entry("inner", Module(<<Entry("weight", P1), Entry("bias", P5)>>,
                                     <<>>)) >>)),
         Entry("head", Module(<<Entry("weight", P3)>>, <<>>)) >>)

Trees == {TwoLayer, Tied, Nested}

C0 == ChunkShardingSpec(0)
C1 == ChunkShardingSpec(1)

NoDict == [kind |-> "None", items |-> <<>>]
Dict(f) == [kind |-> "dict", items |-> f]
NoList == [kind |-> "None", items |-> {}]
List(s) == [kind |-> "list", items |-> s]

ShardingPlan(plan, output_plan, return_local_tensor) ==
    [plan |-> plan, output_plan |-> output_plan,
     return_local_tensor |-> return_local_tensor]

PlanA == ShardingPlan(<<"linear", "weight">> :> C0, NoDict, NoList)
PlanB == ShardingPlan(<<"linear", "weight">> :> C1,
                      Dict(<<"linear">> :> C0), List({<<"linear">>}))
PlanC == ShardingPlan(
    (<<"linear", "weight">> :> C0) @@ (<<"linear", "tied">> :> C0)
    @@ (<<"head", "weight">> :> C0) @@ (<<"head", "bias">> :> C0)
    @@ (<<"linear", "inner", "weight">> :> C0)
    @@ (<<"linear", "inner", "bias">> :> C0)
    @@ (<<"weight">> :> EnumerableShardingSpec),
    Dict((<<>> :> C1) @@ (<<"head">> :> C0)), NoList)
PlanD == ShardingPlan(<<"linear", "tied">> :> C0, NoDict, List({<<"head">>}))
EmptyPlan == ShardingPlan(<<>>, NoDict, NoList)

Plans == {PlanA, PlanB, PlanC, PlanD}
SrcRanks == {0, 1}
ShardingSpecs == {C0, C1, EnumerableShardingSpec}

-----------------------------------------------------------------------------
VARIABLES
    entry,        \* the function every rank calls (SPMD)
    tree,         \* the module tree as built, before any rank touches it
    plan,         \* plan[r]: the ShardingPlan rank r passes to shard_module
    src_rank,     \* src_rank[r]: the src_rank rank r passes
    module,       \* module[r][prefix]: rank r's module tree, mutated in place
    pc,           \* pc[r]: where rank r is in its call
    todo,         \* todo[r]: what named_modules() has still to yield
    param_keys,   \* param_keys[r]: the keys still to visit in the current module
    memo,         \* memo[r]: ids of the parameters seen (the set of line 263)
    call,         \* call[r]: arguments of the running shard_parameter/_shard_tensor
    round,        \* round[r]: number of all_gather_object calls rank r has made
    gathered,     \* gathered[n][r]: what rank r gave to the n-th collective
    result,       \* result[r]: what the call returned
    err,          \* err[r]: the exception the call raised
    CURRENT_PROCESS_GROUP,  \* the global _CURRENT_PROCESS_GROUP (line 148)
    scopes,       \* the load_with_process_group scopes open, outermost first
    history,      \* the scope operations so far and what each did
    hmodule,      \* the module of the hook specification
    hplan,        \* the plan its hooks are installed from
    hprefix,      \* the path shard_module visits that module at
    hpc,          \* "new", or "registered" once lines 281-287 have run
    output,       \* the output of its last forward computation, hooks applied
    hooked        \* the hooks that computation ran: input and return of each

shardVars == <<entry, tree, plan, src_rank, module, pc, todo, param_keys, memo, call,
               round, gathered, result, err>>
scopeVars == <<CURRENT_PROCESS_GROUP, scopes, history>>
hookVars == <<hmodule, hplan, hprefix, hpc, output, hooked>>
vars == <<shardVars, scopeVars, hookVars>>

\* The exceptions (all ValueError in the source, told apart by raise site).
InvalidInput == [kind |-> "ValueError", what |-> "InvalidInput"]
NotFound == [kind |-> "ValueError", what |-> "NotFound"]
TypeMismatch == [kind |-> "ValueError", what |-> "TypeMismatch"]
InconsistentConfiguration(field, idx) ==
    [kind |-> "ValueError", what |-> "InconsistentConfiguration",
     field |-> field, idx |-> idx]
TypeError == [kind |-> "TypeError", what |-> "cannot assign as parameter"]

NoCall == [module |-> <<>>, param_name |-> "", tensor |-> None, sharding_spec |-> None]

\* Values of the variables of the other specifications while one runs.
ShardIdle ==
    /\ entry = "none"
    /\ tree = Module(<<>>, <<>>)
    /\ plan = [r \in Ranks |-> EmptyPlan]
    /\ src_rank = [r \in Ranks |-> 0]
    /\ module = [r \in Ranks |-> <<>>]
    /\ pc = [r \in Ranks |-> "done"]
    /\ todo = [r \in Ranks |-> <<>>]
    /\ param_keys = [r \in Ranks |-> <<>>]
    /\ memo = [r \in Ranks |-> {}]
    /\ call = [r \in Ranks |-> NoCall]
    /\ round = [r \in Ranks |-> 0]
    /\ gathered = <<>>
    /\ result = [r \in Ranks |-> None]
    /\ err = [r \in Ranks |-> None]
ScopeIdle ==
    /\ CURRENT_PROCESS_GROUP = None
    /\ scopes = <<>>
    /\ history = <<>>
HookIdle ==
    /\ hmodule = ModuleState(<<>>, <<>>)
    /\ hplan = EmptyPlan
    /\ hprefix = <<>>
    /\ hpc = "new"
    /\ output = None
    /\ hooked = <<>>

-----------------------------------------------------------------------------
(* Specification Spec: the ranks of one group, each in one call.           *)

\* The modules shard_parameter is called on directly: attribute "w" is
\* missing, None, no tensor, a non-contiguous parameter, a parameter, a plain
\* tensor.
ParameterModules ==
    { ModuleState(<<Entry("b", P2)>>, <<>>),
      ModuleState(<<Entry("w", None), Entry("b", P2)>>, <<>>),
      ModuleState(<<Entry("b", P2)>>, <<Entry("w", NonTensor)>>),
      ModuleState(<<Entry("w", P5), Entry("b", P2)>>, <<>>),
      ModuleState(<<Entry("w", P1), Entry("b", P2)>>, <<>>),
      ModuleState(<<Entry("b", P2)>>, <<Entry("w", Tensor(6, TRUE))>>) }

Prefix(nm) == [i \in 1 .. Len(nm) |-> nm[i].prefix]

InitRun ==
    /\ memo = [r \in Ranks |-> {}]
    /\ round = [r \in Ranks |-> 0]
    /\ gathered = <<>>
    /\ result = [r \in Ranks |-> None]
    /\ err = [r \in Ranks |-> None]
    /\ src_rank \in [Ranks -> SrcRanks]

\* Every rank calls shard_module on its copy of the same module tree, and is
\* at the root module, the first that named_modules() yields.
InitShardModule ==
    /\ entry = "shard_module"
    /\ plan \in [Ranks -> Plans]
    /\ tree \in Trees
    /\ module = [r \in Ranks |-> InitialModules(tree)]
    /\ todo = [r \in Ranks |-> Prefix(named_modules(tree, <<>>))]
    /\ param_keys = [r \in Ranks |-> Keys(tree._parameters)]
    /\ pc = [r \in Ranks |-> "param_keys"]
    /\ call = [r \in Ranks |-> NoCall]

\* Every rank calls shard_parameter(module, "w", sharding_spec, src_rank).
InitShardParameter ==
    /\ entry = "shard_parameter"
    /\ tree = Module(<<>>, <<>>)
    /\ plan = [r \in Ranks |-> EmptyPlan]
    /\ \E ms \in [Ranks -> ParameterModules] :
         module = [r \in Ranks |-> (<<>> :> ms[r])]
    /\ todo = [r \in Ranks |-> <<>>]
    /\ param_keys = [r \in Ranks |-> <<>>]
    /\ pc = [r \in Ranks |-> "shard_parameter"]
    /\ \E ss \in [Ranks -> {C0, C1}] :
         call = [r \in Ranks |-> [NoCall EXCEPT !.param_name = "w",
                                                !.sharding_spec = ss[r]]]

\* Every rank calls _shard_tensor(tensor, sharding_spec, src_rank).
InitShardTensor ==
    /\ entry = "_shard_tensor"
    /\ tree = Module(<<>>, <<>>)
    /\ plan = [r \in Ranks |-> EmptyPlan]
    /\ module = [r \in Ranks |-> <<>>]
    /\ todo = [r \in Ranks |-> <<>>]
    /\ param_keys = [r \in Ranks |-> <<>>]
    /\ pc = [r \in Ranks |-> "_shard_tensor"]
    /\ \E ss \in [Ranks -> ShardingSpecs], ts \in [Ranks -> {P1, P5}] :
         call = [r \in Ranks |-> [NoCall EXCEPT !.tensor = ts[r],
                                                !.sharding_spec = ss[r]]]

Init ==
    /\ InitRun
    /\ InitShardModule \/ InitShardParameter \/ InitShardTensor
    /\ ScopeIdle
    /\ HookIdle

\* dist.all_gather_object(gathered_list, obj): rank p gives obj to its next
\* collective; the call returns once every rank of the group has given.
all_gather_object(p, obj) ==
    LET n == round[p] + 1
    IN /\ round' = [round EXCEPT ![p] = n]
       /\ gathered' =
            IF Len(gathered) < n
            THEN Append(gathered, [r \in Ranks |-> IF r = p THEN obj ELSE None])
            ELSE [gathered EXCEPT ![n][p] = obj]
all_gather_complete(n) == \A r \in Ranks : gathered[n][r] # None

\* _shard_tensor, lines 48-49.
shard_tensor_validate(tensor) ==
    IF ~is_contiguous(tensor) THEN InvalidInput ELSE None

\* Mutant: a non-tensor attribute is reported as a non-contiguous one.
shard_parameter_validate_wrong_error(m, param_name) ==
    IF ~Module_hasattr(m, param_name) THEN NotFound
    ELSE IF ~isinstance_Tensor(Module_getattr(m, param_name)) THEN InvalidInput
    ELSE IF ~is_contiguous(Module_getattr(m, param_name)) THEN InvalidInput
    ELSE None

\* shard_parameter, lines 108-116.
shard_parameter_validate(m, param_name) ==
    IF ~Module_hasattr(m, param_name) THEN NotFound
    ELSE IF ~isinstance_Tensor(Module_getattr(m, param_name)) THEN TypeMismatch
    ELSE IF ~is_contiguous(Module_getattr(m, param_name)) THEN InvalidInput
    ELSE None

\* Mutant: the gathered pairs are not compared at all.
shard_tensor_compare_skipped(own_src_rank, own_sharding_spec, gathered_list) == None

\* Mutant: only the src_rank of each gathered pair is compared.
shard_tensor_compare_src_only(own_src_rank, own_sharding_spec, gathered_list) ==
    LET bad == {idx \in Ranks : own_src_rank # gathered_list[idx].src_rank}
    IN IF bad = {} THEN None
       ELSE InconsistentConfiguration("src_rank", CHOOSE i \in bad : \A j \in bad : i <= j)

\* Mutant: the caller's pair is compared with rank 0's pair only.
shard_tensor_compare_rank0(own_src_rank, own_sharding_spec, gathered_list) ==
    IF own_src_rank # gathered_list[0].src_rank
    THEN InconsistentConfiguration("src_rank", 0)
    ELSE IF own_sharding_spec # gathered_list[0].sharding_spec
    THEN InconsistentConfiguration("sharding_spec", 0)
    ELSE None

\* _shard_tensor, lines 59-67: the first rank whose pair differs from the
\* caller's own, its src_rank compared before its sharding_spec.
shard_tensor_compare(own_src_rank, own_sharding_spec, gathered_list) ==
    LET bad == {idx \in Ranks :
                   \/ own_src_rank # gathered_list[idx].src_rank
                   \/ own_sharding_spec # gathered_list[idx].sharding_spec}
    IN IF bad = {} THEN None
       ELSE LET idx == CHOOSE i \in bad : \A j \in bad : i <= j
            IN IF own_src_rank # gathered_list[idx].src_rank
               THEN InconsistentConfiguration("src_rank", idx)
               ELSE InconsistentConfiguration("sharding_spec", idx)

\* Mutant: the sharded tensor is stored without the delattr before it.
shard_parameter_replace_no_delattr(m, param_name, st) ==
    [module |-> Module_setattr(m, param_name, st), err |-> None]

\* shard_parameter, lines 125-128: delattr, then setattr of the sharded tensor.
shard_parameter_replace(m, param_name, st) ==
    LET deleted == Module_delattr(m, param_name)
    IN IF Module_setattr_refused(deleted, param_name)
       THEN [module |-> deleted, err |-> TypeError]
       ELSE [module |-> Module_setattr(deleted, param_name, st), err |-> None]

\* shard_module, line 263: the memo a module's parameters are checked against.
shard_module_memo(seen) == {}

\* Mutant: nothing is skipped, neither None nor a parameter already seen.
shard_module_skip_never(v, seen) == FALSE

\* Mutant: a parameter already seen is skipped, None is not.
shard_module_skip_seen_only(v, seen) == v \in seen

\* Mutant: no parameter is remembered, only None is skipped.
shard_module_skip_none_only(v, seen) == v = None

\* shard_module, line 269.
shard_module_skip(v, seen) == v = None \/ v \in seen

\* Mutant: the plan is searched by the parameter's local key, not its
\* fully-qualified name.
shard_module_plan_entry_by_key(pl, name) ==
    LET hits == {key \in DOMAIN pl.plan : key[Len(key)] = name[Len(name)]}
    IN IF hits = {} THEN None ELSE pl.plan[CHOOSE key \in hits : TRUE]

\* shard_module, lines 272 and 276: the plan's entry for a parameter name.
shard_module_plan_entry(pl, name) ==
    IF name \in DOMAIN pl.plan THEN pl.plan[name] ELSE None

\* The hooks: module.register_forward_hook(hook_func), lines 196 and 227.
reshard_output(m, resharding_spec) ==
    [m EXCEPT !._forward_hooks =
        Append(@, [hook |-> "_reshard_output", resharding_spec |-> resharding_spec])]
collect_local_shard(m) ==
    [m EXCEPT !._forward_hooks =
        Append(@, [hook |-> "_collect_local_shard", resharding_spec |-> None])]

\* Mutant: the collapse hook is registered first, the reshard hook second.
shard_module_register_collect_first(pl, mod_prefix, m) ==
    LET collected ==
          IF pl.return_local_tensor.kind # "None"
             /\ mod_prefix \in pl.return_local_tensor.items
          THEN collect_local_shard(m)
          ELSE m
    IN IF pl.output_plan.kind # "None" /\ mod_prefix \in DOMAIN pl.output_plan.items
       THEN reshard_output(collected, pl.output_plan.items[mod_prefix])
       ELSE collected

\* Mutant: a plan with a return_local_tensor list puts the collapse hook on
\* every module, listed or not.
shard_module_register_collect_everywhere(pl, mod_prefix, m) ==
    LET resharded ==
          IF pl.output_plan.kind # "None" /\ mod_prefix \in DOMAIN pl.output_plan.items
          THEN reshard_output(m, pl.output_plan.items[mod_prefix])
          ELSE m
    IN IF pl.return_local_tensor.kind # "None"
       THEN collect_local_shard(resharded)
       ELSE resharded

\* shard_module, lines 281-287.
shard_module_register(pl, mod_prefix, m) ==
    LET resharded ==
          IF pl.output_plan.kind # "None" /\ mod_prefix \in DOMAIN pl.output_plan.items
          THEN reshard_output(m, pl.output_plan.items[mod_prefix])
          ELSE m
    IN IF pl.return_local_tensor.kind # "None"
          /\ mod_prefix \in pl.return_local_tensor.items
       THEN collect_local_shard(resharded)
       ELSE resharded

\* Mutant: the pair is given to the collective before the local validation,
\* so a rank that fails its validation has contributed all the same.
RaiseOrGather_gather_first(p, e, c) ==
    /\ all_gather_object(p, [src_rank |-> src_rank[p],
                             sharding_spec |-> c.sharding_spec])
    /\ IF e # None
       THEN /\ pc' = [pc EXCEPT ![p] = "raised"]
            /\ err' = [err EXCEPT ![p] = e]
            /\ UNCHANGED call
       ELSE /\ pc' = [pc EXCEPT ![p] = "all_gather"]
            /\ call' = [call EXCEPT ![p] = c]
            /\ UNCHANGED err

\* A call raises e, or (e = None) goes on into _shard_tensor's all_gather.
RaiseOrGather(p, e, c) ==
    IF e # None
    THEN /\ pc' = [pc EXCEPT ![p] = "raised"]
         /\ err' = [err EXCEPT ![p] = e]
         /\ UNCHANGED <<call, round, gathered>>
    ELSE /\ pc' = [pc EXCEPT ![p] = "all_gather"]
         /\ call' = [call EXCEPT ![p] = c]
         /\ all_gather_object(p, [src_rank |-> src_rank[p],
                                  sharding_spec |-> c.sharding_spec])
         /\ UNCHANGED err

\* shard_module, lines 266-279, one key: skipped, only remembered, or given
\* to shard_parameter (lines 108-118), which runs into _shard_tensor
\* (lines 48-57) and waits at all_gather_object.
shard_module_param(p) ==
    /\ pc[p] = "param_keys"
    /\ param_keys[p] # <<>>
    /\ LET mod_prefix == Head(todo[p])
           k == Head(param_keys[p])
           v == Lookup(module[p][mod_prefix]._parameters, k)
           name == Append(mod_prefix, k)
       IN IF shard_module_skip(v, memo[p])
          THEN /\ param_keys' = [param_keys EXCEPT ![p] = Tail(@)]
               /\ UNCHANGED <<memo, pc, err, call, round, gathered>>
          ELSE /\ memo' = [memo EXCEPT ![p] = @ \cup {v}]
               /\ IF shard_module_plan_entry(plan[p], name) # None
                  THEN /\ RaiseOrGather(p,
                            shard_parameter_validate(module[p][mod_prefix], k),
                            [module |-> mod_prefix, param_name |-> k, tensor |-> v,
                             sharding_spec |-> shard_module_plan_entry(plan[p], name)])
                       /\ UNCHANGED param_keys
                  ELSE /\ param_keys' = [param_keys EXCEPT ![p] = Tail(@)]
                       /\ UNCHANGED <<pc, err, call, round, gathered>>
    /\ UNCHANGED <<entry, tree, plan, src_rank, module, todo, result, scopeVars, hookVars>>

\* Mutant: the hooks of a module are installed when the loop reaches it,
\* before its parameters are sharded, instead of after them.
shard_module_hooks_early(p) ==
    /\ pc[p] = "param_keys"
    /\ param_keys[p] = <<>>
    /\ todo' = [todo EXCEPT ![p] = Tail(@)]
    /\ IF Tail(todo[p]) = <<>>
       THEN /\ pc' = [pc EXCEPT ![p] = "done"]
            /\ UNCHANGED <<memo, param_keys, module>>
       ELSE /\ module' = [module EXCEPT ![p][Head(Tail(todo[p]))] =
                            shard_module_register(plan[p], Head(Tail(todo[p])), @)]
            /\ memo' = [memo EXCEPT ![p] = shard_module_memo(@)]
            /\ param_keys' =
                 [param_keys EXCEPT ![p] = Keys(module[p][Head(Tail(todo[p]))]._parameters)]
            /\ UNCHANGED pc
    /\ UNCHANGED <<entry, tree, plan, src_rank, call, round, gathered, result, err,
                   scopeVars, hookVars>>

\* shard_module, lines 281-287: the hooks of the module just visited; then
\* lines 259-265: the next module of named_modules(), with a new memo and the
\* list of its parameter keys, or the return when there is none left.
shard_module_hooks(p) ==
    /\ pc[p] = "param_keys"
    /\ param_keys[p] = <<>>
    /\ module' = [module EXCEPT ![p][Head(todo[p])] =
                     shard_module_register(plan[p], Head(todo[p]), @)]
    /\ todo' = [todo EXCEPT ![p] = Tail(@)]
    /\ IF Tail(todo[p]) = <<>>
       THEN /\ pc' = [pc EXCEPT ![p] = "done"]
            /\ UNCHANGED <<memo, param_keys>>
       ELSE /\ memo' = [memo EXCEPT ![p] = shard_module_memo(@)]
            /\ param_keys' =
                 [param_keys EXCEPT ![p] = Keys(module[p][Head(Tail(todo[p]))]._parameters)]
            /\ UNCHANGED pc
    /\ UNCHANGED <<entry, tree, plan, src_rank, call, round, gathered, result, err,
                   scopeVars, hookVars>>

\* A direct call of shard_parameter, lines 108-118 and 48-57.
call_shard_parameter(p) ==
    /\ pc[p] = "shard_parameter"
    /\ LET e == shard_parameter_validate(module[p][call[p].module], call[p].param_name)
       IN RaiseOrGather(p, e,
            IF e # None THEN call[p]
            ELSE [call[p] EXCEPT !.tensor =
                     Module_getattr(module[p][call[p].module], call[p].param_name)])
    /\ UNCHANGED <<entry, tree, plan, src_rank, module, todo, param_keys, memo, result,
                   scopeVars, hookVars>>

\* A direct call of _shard_tensor, lines 48-57.
call_shard_tensor(p) ==
    /\ pc[p] = "_shard_tensor"
    /\ RaiseOrGather(p, shard_tensor_validate(call[p].tensor), call[p])
    /\ UNCHANGED <<entry, tree, plan, src_rank, module, todo, param_keys, memo, result,
                   scopeVars, hookVars>>

\* all_gather_object returns: _shard_tensor, lines 59-71, then for a
\* parameter shard_parameter's lines 125-128 and the return to the caller.
all_gather_return(p) ==
    /\ pc[p] = "all_gather"
    /\ all_gather_complete(round[p])
    /\ LET e == shard_tensor_compare(src_rank[p], call[p].sharding_spec,
                                     gathered[round[p]])
           st == ShardingSpec_shard(call[p].tensor, call[p].sharding_spec,
                                    src_rank[p], round[p])
           replaced == shard_parameter_replace(module[p][call[p].module],
                                               call[p].param_name, st)
       IN IF e # None
          THEN /\ pc' = [pc EXCEPT ![p] = "raised"]
               /\ err' = [err EXCEPT ![p] = e]
               /\ UNCHANGED <<module, result, param_keys>>
          ELSE IF entry = "_shard_tensor"
          THEN /\ pc' = [pc EXCEPT ![p] = "done"]
               /\ result' = [result EXCEPT ![p] = st]
               /\ UNCHANGED <<module, err, param_keys>>
          ELSE /\ module' = [module EXCEPT ![p][call[p].module] = replaced.module]
               /\ IF replaced.err # None
                  THEN /\ pc' = [pc EXCEPT ![p] = "raised"]
                       /\ err' = [err EXCEPT ![p] = replaced.err]
                       /\ UNCHANGED param_keys
                  ELSE /\ UNCHANGED err
                       /\ IF entry = "shard_parameter"
                          THEN /\ pc' = [pc EXCEPT ![p] = "done"]
                               /\ UNCHANGED param_keys
                          ELSE /\ pc' = [pc EXCEPT ![p] = "param_keys"]
                               /\ param_keys' = [param_keys EXCEPT ![p] = Tail(@)]
               /\ UNCHANGED result
    /\ UNCHANGED <<entry, tree, plan, src_rank, todo, memo, call, round, gathered,
                   scopeVars, hookVars>>

Next ==
    \E p \in Ranks :
        \/ shard_module_param(p)
        \/ shard_module_hooks(p)
        \/ call_shard_parameter(p)
        \/ call_shard_tensor(p)
        \/ all_gather_return(p)

Spec == Init /\ [][Next]_vars

\* Each rank is an operating-system process of its own that keeps running:
\* a rank that can take its next step eventually takes it.
RankStep(p) ==
    \/ shard_module_param(p)
    \/ shard_module_hooks(p)
    \/ call_shard_parameter(p)
    \/ call_shard_tensor(p)
    \/ all_gather_return(p)

FairSpec == Spec /\ \A p \in Ranks : WF_vars(RankStep(p))

-----------------------------------------------------------------------------
(* Specification SpecScope: load_with_process_group and its reader.        *)

ProcessGroup(n) == [kind |-> "ProcessGroup", name |-> n]
\* distributed_c10d._get_default_group()
DefaultGroup == ProcessGroup("default")
\* What a caller may pass as process_group.
Groups == {None, ProcessGroup("g1"), ProcessGroup("g2")}

Event(op, group, res) == [op |-> op, group |-> group, result |-> res]

\* load_with_process_group, line 156: the reentrancy test.
load_already_set(current) == current # None

\* Mutant: no try/finally, an exception in the body skips the reset.
load_finally_not_on_raise(current, raising) == IF raising THEN current ELSE None

\* load_with_process_group, lines 161-164: what the global holds after the
\* scope is left, normally or (raising) by an exception in its body.
load_finally(current, raising) == None

\* Mutant: the override is ignored, the default group is returned always.
get_current_process_group_value_default(current) == ProcessGroup("default")

\* _get_current_process_group, lines 172-175.
get_current_process_group_value(current) ==
    IF current = None THEN DefaultGroup ELSE current

InitScope ==
    /\ CURRENT_PROCESS_GROUP = None
    /\ scopes = <<>>
    /\ history = <<>>
    /\ ShardIdle
    /\ HookIdle

\* Mutant: the reentrancy test sits inside the try block, so the finally
\* clause clears the override when the nested entry is rejected.
load_enter_clears_on_reject(process_group) ==
    /\ Len(history) < MaxOps
    /\ IF load_already_set(CURRENT_PROCESS_GROUP)
       THEN /\ history' = Append(history, Event("enter", process_group, "RuntimeError"))
            /\ CURRENT_PROCESS_GROUP' = None
            /\ UNCHANGED scopes
       ELSE /\ CURRENT_PROCESS_GROUP' = process_group
            /\ scopes' = Append(scopes, process_group)
            /\ history' = Append(history, Event("enter", process_group, "entered"))
    /\ UNCHANGED <<shardVars, hookVars>>

\* with load_with_process_group(process_group): lines 155-162.
load_enter(process_group) ==
    /\ Len(history) < MaxOps
    /\ IF load_already_set(CURRENT_PROCESS_GROUP)
       THEN /\ history' = Append(history, Event("enter", process_group, "RuntimeError"))
            /\ UNCHANGED <<CURRENT_PROCESS_GROUP, scopes>>
       ELSE /\ CURRENT_PROCESS_GROUP' = process_group
            /\ scopes' = Append(scopes, process_group)
            /\ history' = Append(history, Event("enter", process_group, "entered"))
    /\ UNCHANGED <<shardVars, hookVars>>

\* The innermost open scope is left, lines 163-164: its body ended
\* (raising = FALSE) or raised (raising = TRUE).
load_exit(raising) ==
    /\ Len(history) < MaxOps
    /\ scopes # <<>>
    /\ CURRENT_PROCESS_GROUP' = load_finally(CURRENT_PROCESS_GROUP, raising)
    /\ scopes' = SubSeq(scopes, 1, Len(scopes) - 1)
    /\ history' = Append(history, Event("exit", scopes[Len(scopes)],
                                        IF raising THEN "raised" ELSE "exited"))
    /\ UNCHANGED <<shardVars, hookVars>>

\* _get_current_process_group(), lines 166-175.
get_current_process_group ==
    /\ Len(history) < MaxOps
    /\ history' = Append(history,
          Event("get", get_current_process_group_value(CURRENT_PROCESS_GROUP), "returned"))
    /\ UNCHANGED <<CURRENT_PROCESS_GROUP, scopes, shardVars, hookVars>>

NextScope ==
    \/ \E g \in Groups : load_enter(g)
    \/ \E raising \in BOOLEAN : load_exit(raising)
    \/ get_current_process_group

SpecScope == InitScope /\ [][NextScope]_vars

-----------------------------------------------------------------------------
(* Specification SpecHooks: the hooks of one module and its forward runs.  *)

\* The extents a dimension of a local shard takes.
Extents == {1, 2, 16}
Shapes == UNION {[1 .. n -> Extents] : n \in 2 .. MaxRank}

\* A module output: a sharded tensor (its specification, the shape of its
\* local shard), a partial tensor, or a dense tensor.
ShardedOutput(sharding_spec, local_shape) ==
    [kind |-> "ShardedTensor", sharding_spec |-> sharding_spec, shape |-> local_shape]
PartialOutput(local_shape) ==
    [kind |-> "_PartialTensor", sharding_spec |-> None, shape |-> local_shape]
DenseOutput(shape) == [kind |-> "Tensor", sharding_spec |-> None, shape |-> shape]

Outputs ==
    {ShardedOutput(sp, sh) : sp \in ShardingSpecs, sh \in Shapes}
    \cup {PartialOutput(sh) : sh \in Shapes}
    \cup {DenseOutput(sh) : sh \in Shapes}

\* Tensor.size(dim) and Tensor.squeeze(dim), dim counted from 0.
size(shape, dim) == shape[dim + 1]
squeeze(shape, dim) ==
    IF shape[dim + 1] = 1
    THEN [i \in 1 .. (Len(shape) - 1) |-> IF i <= dim THEN shape[i] ELSE shape[i + 1]]
    ELSE shape

CeilDiv(a, b) == (a + b - 1) \div b

\* output.reshard(resharding_spec): the value is sharded by the new
\* specification; between two chunk specifications the old split dimension
\* is whole again and the new one is split over the ranks.
reshard(out, resharding_spec) ==
    LET old == out.sharding_spec
        whole == IF out.kind = "ShardedTensor" /\ old.type = "ChunkShardingSpec"
                 THEN [out.shape EXCEPT ![old.dim + 1] = @ * WorldSize]
                 ELSE out.shape
    IN ShardedOutput(resharding_spec,
          IF resharding_spec.type = "ChunkShardingSpec"
          THEN [whole EXCEPT ![resharding_spec.dim + 1] = CeilDiv(@, WorldSize)]
          ELSE whole)

\* output.local_tensor()
local_tensor(out) == DenseOutput(out.shape)

\* Mutant: only a ShardedTensor is resharded, a _PartialTensor passes through.
reshard_hook_func_sharded_only(resharding_spec, out) ==
    IF out.kind = "ShardedTensor"
    THEN reshard(out, resharding_spec)
    ELSE out

\* _reshard_output.hook_func, lines 192-195.
reshard_hook_func(resharding_spec, out) ==
    IF out.kind = "ShardedTensor" \/ out.kind = "_PartialTensor"
    THEN reshard(out, resharding_spec)
    ELSE out

\* Mutant: squeeze() without the dimension, every extent of 1 is removed.
collect_hook_func_squeeze_all(out) ==
    IF out.kind = "ShardedTensor"
    THEN IF out.sharding_spec.type = "ChunkShardingSpec"
            /\ size(local_tensor(out).shape, out.sharding_spec.dim) = 1
         THEN DenseOutput(SelectSeq(local_tensor(out).shape, LAMBDA e : e # 1))
         ELSE local_tensor(out)
    ELSE None

\* _collect_local_shard.hook_func, lines 216-226.
collect_hook_func(out) ==
    IF out.kind = "ShardedTensor"
    THEN IF out.sharding_spec.type = "ChunkShardingSpec"
            /\ size(local_tensor(out).shape, out.sharding_spec.dim) = 1
         THEN DenseOutput(squeeze(local_tensor(out).shape, out.sharding_spec.dim))
         ELSE local_tensor(out)
    ELSE None

hook_func(h, out) ==
    IF h.hook = "_reshard_output" THEN reshard_hook_func(h.resharding_spec, out)
    ELSE collect_hook_func(out)

\* Module.__call__: the forward hooks run in registration order; a hook
\* that returns None leaves the output as it is.
RECURSIVE run_forward_hooks(_, _, _)
run_forward_hooks(hooks, i, out) ==
    IF i > Len(hooks) THEN <<>>
    ELSE LET ret == hook_func(hooks[i], out)
             next == IF ret # None THEN ret ELSE out
         IN <<[hook |-> hooks[i].hook, input |-> out, returned |-> ret,
               result |-> next]>>
            \o run_forward_hooks(hooks, i + 1, next)

InitHooks ==
    /\ hmodule = ModuleState(<<>>, <<>>)
    /\ hplan \in Plans
    /\ hprefix \in {<<>>, <<"linear">>, <<"head">>}
    /\ hpc = "new"
    /\ output = None
    /\ hooked = <<>>
    /\ ShardIdle
    /\ ScopeIdle

\* shard_module reaches the module: lines 281-287.
register_hooks ==
    /\ hpc = "new"
    /\ hmodule' = shard_module_register(hplan, hprefix, hmodule)
    /\ hpc' = "registered"
    /\ UNCHANGED <<hplan, hprefix, output, hooked, shardVars, scopeVars>>

\* module(input): forward computes out, then the hooks run on it.
forward(out) ==
    /\ hpc = "registered"
    /\ hooked' = run_forward_hooks(hmodule._forward_hooks, 1, out)
    /\ output' = IF hooked' = <<>> THEN out ELSE hooked'[Len(hooked')].result
    /\ UNCHANGED <<hmodule, hplan, hprefix, hpc, shardVars, scopeVars>>

NextHooks ==
    \/ register_hooks
    \/ \E out \in Outputs : forward(out)

SpecHooks == InitHooks /\ [][NextHooks]_vars

-----------------------------------------------------------------------------
(* Properties of Spec.                                                     *)

SamePairs ==
    \A r, q \in Ranks :
        /\ src_rank[r] = src_rank[q]
        /\ call[r].sharding_spec = call[q].sharding_spec
AllContiguous == \A r \in Ranks : is_contiguous(call[r].tensor)
AgreementFailed(r) ==
    pc[r] = "raised" /\ err[r].what = "InconsistentConfiguration"

\* C1: when every rank calls _shard_tensor with a contiguous tensor, a rank
\* returns a sharded tensor only if all ranks passed the same
\* (src_rank, sharding_spec) pair, a rank fails only if two pairs differ and
\* then with the inconsistent-configuration error and no result, and once
\* every rank has called, no rank is left waiting: all succeed or all fail.
C1_AllOrNothing ==
    (entry = "_shard_tensor" /\ AllContiguous) =>
        /\ \A r \in Ranks :
              /\ pc[r] = "done" => SamePairs /\ result[r].kind = "ShardedTensor"
              /\ pc[r] = "raised" =>
                    ~SamePairs /\ AgreementFailed(r) /\ result[r] = None
        /\ (\A r \in Ranks : pc[r] # "_shard_tensor") =>
              \A r \in Ranks : pc[r] = "all_gather" => all_gather_complete(round[r])

C1_Witness ==
    /\ entry = "_shard_tensor"
    /\ AllContiguous
    /\ \A r, q \in Ranks : src_rank[r] = src_rank[q]
    /\ ~SamePairs
    /\ \A r \in Ranks : AgreementFailed(r) /\ result[r] = None

\* Every parameter slot of the tree as built, in traversal order.
RECURSIVE SlotsFrom(_, _, _)
SlotsFrom(nm, i, j) ==
    IF i > Len(nm) THEN <<>>
    ELSE IF j > Len(nm[i].mod._parameters) THEN SlotsFrom(nm, i + 1, 1)
    ELSE <<[prefix |-> nm[i].prefix, k |-> nm[i].mod._parameters[j].k,
            v |-> nm[i].mod._parameters[j].v]>> \o SlotsFrom(nm, i, j + 1)
TreeSlots == [t \in Trees |-> SlotsFrom(named_modules(t, <<>>), 1, 1)]
Slots == TreeSlots[tree]

SlotName(slot) == Append(slot.prefix, slot.k)
ValueAt(r, slot) == Module_getattr(module[r][slot.prefix], slot.k)
IsShardedAt(r, slot) ==
    /\ Module_hasattr(module[r][slot.prefix], slot.k)
    /\ ValueAt(r, slot).kind = "ShardedTensor"
StillDenseAt(r, slot) ==
    /\ HasKey(module[r][slot.prefix]._parameters, slot.k)
    /\ Lookup(module[r][slot.prefix]._parameters, slot.k) = slot.v
\* Slots i < j that hold the same parameter object.
Aliases(slots, i, j) ==
    /\ i < j
    /\ slots[i].v # None
    /\ slots[i].v = slots[j].v

\* C2: in one shard_module run a parameter object reachable under two names
\* is sharded only at its first name in traversal order: it is never
\* sharded at a later name, plan key or not.
C2_ShardedOnlyAtFirstName ==
    entry = "shard_module" =>
        LET slots == Slots
        IN \A r \in Ranks : \A i, j \in 1 .. Len(slots) :
              Aliases(slots, i, j) => ~IsShardedAt(r, slots[j])

\* C3, as the spec states it: once the run is over and the object was
\* sharded at its first name, the later reference holds that same sharded
\* value.
C3_LaterReferenceShared ==
    entry = "shard_module" =>
        LET slots == Slots
        IN \A r \in Ranks : \A i, j \in 1 .. Len(slots) :
              (pc[r] = "done" /\ Aliases(slots, i, j) /\ IsShardedAt(r, slots[i])) =>
                  ValueAt(r, slots[j]) = ValueAt(r, slots[i])

\* C3, amended: a later reference to a parameter object sharded at its
\* first name never holds the sharded value made for the first name; in the
\* same module it still holds the dense parameter, and in another module
\* it holds the dense parameter unless its own name is a plan key.
C3_LaterReferenceKeepsDense ==
    entry = "shard_module" =>
        LET slots == Slots
        IN \A r \in Ranks : \A i, j \in 1 .. Len(slots) :
              (Aliases(slots, i, j) /\ IsShardedAt(r, slots[i])) =>
                  /\ ValueAt(r, slots[j]) # ValueAt(r, slots[i])
                  /\ slots[i].prefix = slots[j].prefix => StillDenseAt(r, slots[j])
                  /\ SlotName(slots[j]) \notin DOMAIN plan[r].plan =>
                        StillDenseAt(r, slots[j])

C3_Witness ==
    /\ entry = "shard_module"
    /\ LET slots == Slots
       IN \E r \in Ranks : \E i, j \in 1 .. Len(slots) :
             /\ pc[r] = "done"
             /\ Aliases(slots, i, j)
             /\ slots[i].prefix = slots[j].prefix
             /\ SlotName(slots[j]) \in DOMAIN plan[r].plan
             /\ IsShardedAt(r, slots[i])
             /\ StillDenseAt(r, slots[j])

InputsDiffer ==
    \E r, q \in Ranks : plan[r] # plan[q] \/ src_rank[r] # src_rank[q]
Blocked(r) == pc[r] = "all_gather" /\ ~all_gather_complete(round[r])
\* No rank can take another step.
Quiescent == \A r \in Ranks : pc[r] \in {"done", "raised"} \/ Blocked(r)
\* The n-th collective got a pair from every rank, and two of them differ.
Mismatch(n) ==
    /\ all_gather_complete(n)
    /\ \E a, b \in Ranks : gathered[n][a] # gathered[n][b]

\* No rank failed for another reason than the agreement check.
NoLocalFailure == \A r \in Ranks : pc[r] = "raised" => AgreementFailed(r)

\* C4, as the spec states it: a shard_module run whose plans or source
\* ranks differ between the ranks (and in which no rank fails its local
\* validation) ends with an agreement-check failure, with no rank
\* returning normally and none blocked at the collective.
C4_DifferenceAlwaysDetected ==
    (entry = "shard_module" /\ InputsDiffer /\ Quiescent /\ NoLocalFailure) =>
        /\ \E r \in Ranks : AgreementFailed(r)
        /\ \A r \in Ranks : pc[r] # "done" /\ ~Blocked(r)

\* C4, amended: a rank fails the agreement check exactly when it returns
\* from a collective that every rank reached and to which two ranks gave
\* different (src_rank, sharding_spec) pairs; every rank returning from
\* such a collective fails there.
C4_DetectedAtSharedCollective ==
    entry = "shard_module" =>
        \A r \in Ranks :
            /\ AgreementFailed(r) => round[r] >= 1 /\ Mismatch(round[r])
            /\ (round[r] >= 1 /\ Mismatch(round[r]) /\ pc[r] # "all_gather") =>
                  AgreementFailed(r)
            /\ pc[r] = "done" => \A n \in 1 .. round[r] : ~Mismatch(n)

C4_Witness ==
    /\ entry = "shard_module"
    /\ InputsDiffer
    /\ \A r \in Ranks : AgreementFailed(r) /\ Mismatch(round[r])

\* C5: a shard_parameter call that succeeds takes the name out of the
\* module's parameter table and leaves under it the sharded tensor of the
\* given specification; every other attribute, the hooks and every other
\* module are as before.
C5_ParameterReplaced ==
    [][\A r \in Ranks :
        (entry # "_shard_tensor" /\ pc[r] = "all_gather"
            /\ pc'[r] \in {"done", "param_keys"}) =>
          LET name == call[r].param_name
              before == module[r][call[r].module]
              after == module'[r][call[r].module]
          IN /\ ~HasKey(after._parameters, name)
             /\ HasKey(after.dict, name)
             /\ Lookup(after.dict, name).kind = "ShardedTensor"
             /\ Lookup(after.dict, name).sharding_spec = call[r].sharding_spec
             /\ Lookup(after.dict, name).tensor = call[r].tensor.id
             /\ DelKey(after._parameters, name) = DelKey(before._parameters, name)
             /\ DelKey(after.dict, name) = DelKey(before.dict, name)
             /\ after._forward_hooks = before._forward_hooks
             /\ \A prefix \in DOMAIN module[r] \ {call[r].module} :
                   module'[r][prefix] = module[r][prefix]
             /\ \A q \in Ranks \ {r} : module'[q] = module[q]
      ]_vars

C5_Witness ==
    /\ entry = "shard_parameter"
    /\ \E r \in Ranks :
          /\ pc[r] = "done"
          /\ ~HasKey(module[r][<<>>]._parameters, "w")
          /\ HasKey(module[r][<<>>].dict, "w")
          /\ Lookup(module[r][<<>>].dict, "w").kind = "ShardedTensor"
          /\ Lookup(module[r][<<>>]._parameters, "b") = P2

\* C6: shard_parameter fails with NotFound when the module has no attribute
\* of the name, else with TypeMismatch when the attribute is no tensor, else
\* with InvalidInput when the tensor is not contiguous, and goes on to the
\* collective otherwise; a failing call leaves every module as it was.
C6_ValidationErrors ==
    [][\A r \in Ranks :
        (pc[r] = "shard_parameter" /\ pc'[r] # "shard_parameter") =>
          LET m == module[r][call[r].module]
              name == call[r].param_name
              present == HasKey(m.dict, name) \/ HasKey(m._parameters, name)
              value == IF HasKey(m.dict, name) THEN Lookup(m.dict, name)
                       ELSE Lookup(m._parameters, name)
              tensor == present /\ value.kind \in {"Parameter", "Tensor"}
          IN /\ ~present => pc'[r] = "raised" /\ err'[r] = NotFound
             /\ (present /\ ~tensor) => pc'[r] = "raised" /\ err'[r] = TypeMismatch
             /\ (tensor /\ ~value.contiguous) =>
                   pc'[r] = "raised" /\ err'[r] = InvalidInput
             /\ (tensor /\ value.contiguous) => pc'[r] = "all_gather"
             /\ module' = module
      ]_vars

C6_Witness ==
    /\ entry = "shard_parameter"
    /\ \E r, q \in Ranks :
          /\ pc[r] = "raised" /\ err[r] = TypeMismatch
          /\ HasKey(module[r][<<>>].dict, "w")
          /\ Lookup(module[r][<<>>].dict, "w") = NonTensor
          /\ pc[q] = "raised" /\ err[q] = NotFound
          /\ ~Module_hasattr(module[q][<<>>], "w")

\* C7: in a shard_module run a parameter is replaced by a sharded tensor
\* only if its fully-qualified name is a key of the plan; a parameter whose
\* name is no plan key is still the same dense object in its module's
\* parameter table.
C7_OnlyPlanKeysSharded ==
    entry = "shard_module" =>
        LET slots == Slots
        IN \A r \in Ranks : \A i \in 1 .. Len(slots) :
              /\ IsShardedAt(r, slots[i]) => SlotName(slots[i]) \in DOMAIN plan[r].plan
              /\ SlotName(slots[i]) \notin DOMAIN plan[r].plan =>
                    /\ StillDenseAt(r, slots[i])
                    /\ ~HasKey(module[r][slots[i].prefix].dict, slots[i].k)

C7_Witness ==
    /\ entry = "shard_module"
    /\ tree = TwoLayer
    /\ \A r \in Ranks :
          /\ plan[r] = PlanA
          /\ pc[r] = "done"
          /\ HasKey(module[r][<<"linear">>].dict, "weight")
          /\ Lookup(module[r][<<"linear">>].dict, "weight").kind = "ShardedTensor"
          /\ Lookup(module[r][<<"linear">>]._parameters, "bias") = P2

\* The sharded tensors rank r holds (what it returned, what its modules now
\* have as attributes), each named by the collective it was made after.
ShardedBy(r) ==
    LET held == {result[r]} \cup
                UNION {{module[r][pf].dict[i].v : i \in 1 .. Len(module[r][pf].dict)} :
                          pf \in DOMAIN module[r]}
    IN {v.oid : v \in {h \in held : h.kind = "ShardedTensor"}}

\* C11: a rank gets a sharded tensor from sharding_spec.shard only in the
\* step in which it returns from an all-gather that every rank has reached
\* and in which every rank's (src_rank, sharding_spec) pair equals its own;
\* a rank that finds a mismatch gets none: its result stays None and it
\* holds no sharded tensor it did not hold before.
C11_ShardOnlyAfterAgreement ==
    [][\A r \in Ranks :
        /\ \A n \in ShardedBy(r)' \ ShardedBy(r) :
              /\ pc[r] = "all_gather"
              /\ n = round[r]
              /\ all_gather_complete(n)
              /\ \A q \in Ranks :
                    gathered[n][q] = [src_rank |-> src_rank[r],
                                      sharding_spec |-> call[r].sharding_spec]
        /\ (pc[r] = "all_gather" /\ AgreementFailed(r)') =>
              /\ ShardedBy(r)' = ShardedBy(r)
              /\ result'[r] = None
      ]_vars

C11_Witness ==
    /\ entry = "shard_parameter"
    /\ Len(gathered) = 1
    /\ all_gather_complete(1)
    /\ \A r \in Ranks :
          /\ AgreementFailed(r)
          /\ round[r] = 1
          /\ ShardedBy(r) = {}
          /\ HasKey(module[r][<<>>]._parameters, "w")
          /\ Lookup(module[r][<<>>]._parameters, "w") = P1

SameInputs ==
    \A r, q \in Ranks : plan[r] = plan[q] /\ src_rank[r] = src_rank[q]
Terminated(r) == pc[r] \in {"done", "raised"}

\* What a traversal of the slots from the i-th on calls the all-gather for,
\* read off the tree and the plan alone: a slot is passed over when it is
\* None or its object was met before in its module (seen, empty again at
\* every module), or when its name is no plan key; a plan-matched slot that is
\* not contiguous ends the run (fails), any other makes one call.
RECURSIVE CallsFrom(_, _, _, _)
CallsFrom(slots, pl, i, seen) ==
    IF i > Len(slots) THEN [calls |-> <<>>, fails |-> FALSE]
    ELSE LET s == slots[i]
             met == IF i > 1 /\ slots[i - 1].prefix = s.prefix THEN seen ELSE {}
         IN IF s.v = None \/ s.v \in met
            THEN CallsFrom(slots, pl, i + 1, met)
            ELSE IF SlotName(s) \notin DOMAIN pl.plan
            THEN CallsFrom(slots, pl, i + 1, met \cup {s.v})
            ELSE IF ~s.v.contiguous
            THEN [calls |-> <<>>, fails |-> TRUE]
            ELSE LET rest == CallsFrom(slots, pl, i + 1, met \cup {s.v})
                 IN [calls |-> <<s>> \o rest.calls, fails |-> rest.fails]
TreeCalls == [t \in Trees |-> [pl \in Plans |-> CallsFrom(TreeSlots[t], pl, 1, {})]]

ReshardHook(sp) == [hook |-> "_reshard_output", resharding_spec |-> sp]
CollectHook == [hook |-> "_collect_local_shard", resharding_spec |-> None]
WantsReshard(pl, prefix) ==
    pl.output_plan.kind = "dict" /\ prefix \in DOMAIN pl.output_plan.items
WantsCollect(pl, prefix) ==
    pl.return_local_tensor.kind = "list" /\ prefix \in pl.return_local_tensor.items
PlanHooks(pl, prefix) ==
    (IF WantsReshard(pl, prefix)
     THEN <<ReshardHook(pl.output_plan.items[prefix])>> ELSE <<>>)
    \o (IF WantsCollect(pl, prefix) THEN <<CollectHook>> ELSE <<>>)

\* The slot whose shard_parameter call raised on rank r.
FailingSlot(r, slots) ==
    CHOOSE i \in 1 .. Len(slots) :
        slots[i].prefix = Head(todo[r]) /\ slots[i].k = Head(param_keys[r])

\* C13: when shard_module has raised on a rank, every parameter before the
\* failing one that shard_parameter was called for is sharded by its plan
\* entry, the failing parameter and every later one are the dense objects
\* they were, still in their parameter tables, the failing module and every
\* later module have no hook, and the modules before it have their hooks.
C13_FailureLeavesRestUntouched ==
    entry = "shard_module" =>
        LET slots == Slots
        IN \A r \in Ranks :
              pc[r] = "raised" =>
                 LET f == FailingSlot(r, slots)
                     calls == TreeCalls[tree][plan[r]].calls
                     made == {calls[i] : i \in 1 .. Len(calls)}
                     later == {todo[r][i] : i \in 1 .. Len(todo[r])}
                 IN /\ \A j \in 1 .. Len(slots) :
                          IF j < f /\ slots[j] \in made
                          THEN /\ IsShardedAt(r, slots[j])
                               /\ ValueAt(r, slots[j]).sharding_spec =
                                     plan[r].plan[SlotName(slots[j])]
                          ELSE /\ StillDenseAt(r, slots[j])
                               /\ ~HasKey(module[r][slots[j].prefix].dict, slots[j].k)
                    /\ \A prefix \in DOMAIN module[r] :
                          module[r][prefix]._forward_hooks =
                             IF prefix \in later THEN <<>>
                             ELSE PlanHooks(plan[r], prefix)

C13_Witness ==
    /\ entry = "shard_module"
    /\ tree = Nested
    /\ \E r \in Ranks :
          /\ plan[r] = PlanC
          /\ pc[r] = "raised"
          /\ err[r] = InvalidInput
          /\ Head(todo[r]) = <<"linear", "inner">>
          /\ Head(param_keys[r]) = "bias"
          /\ HasKey(module[r][<<"linear">>].dict, "weight")
          /\ Lookup(module[r][<<"linear">>].dict, "weight").kind = "ShardedTensor"
          /\ module[r][<<>>]._forward_hooks = <<ReshardHook(C1)>>
          /\ HasKey(module[r][<<"head">>]._parameters, "weight")
          /\ Lookup(module[r][<<"head">>]._parameters, "weight") = P3
          /\ module[r][<<"head">>]._forward_hooks = <<>>

\* C18: when shard_module comes to a parameter key whose value is None, it
\* passes it over even if the name is a plan key: the rank raises nothing,
\* makes no all-gather call, stays in the loop, and its modules (the None
\* attribute with them) are as before.
C18_NoneSkipped ==
    [][\A r \in Ranks :
        (entry = "shard_module" /\ pc[r] = "param_keys" /\ param_keys[r] # <<>>
           /\ Lookup(module[r][Head(todo[r])]._parameters, Head(param_keys[r])) = None) =>
          /\ pc'[r] = "param_keys"
          /\ err'[r] = None
          /\ round'[r] = round[r]
          /\ \A n \in 1 .. Len(gathered') :
                n > Len(gathered) \/ gathered'[n][r] = gathered[n][r]
          /\ module'[r] = module[r]
          /\ param_keys'[r] \in {param_keys[r], Tail(param_keys[r])}
      ]_vars

C18_Witness ==
    /\ entry = "shard_module"
    /\ tree = TwoLayer
    /\ \E r \in Ranks :
          /\ plan[r] = PlanC
          /\ pc[r] = "done"
          /\ err[r] = None
          /\ round[r] = 2
          /\ HasKey(module[r][<<"head">>]._parameters, "bias")
          /\ Lookup(module[r][<<"head">>]._parameters, "bias") = None
          /\ ~HasKey(module[r][<<"head">>].dict, "bias")

\* Rank r's call raised in its local validation (lines 48-49, 108-116).
LocallyFailed(r) ==
    pc[r] = "raised" /\ err[r] \in {NotFound, TypeMismatch, InvalidInput}
\* Rank q's direct call passes the local validation.
PassesValidation(q) ==
    \/ /\ entry = "_shard_tensor"
       /\ call[q].tensor.contiguous
    \/ /\ entry = "shard_parameter"
       /\ LET m == module[q][<<>>]
              name == call[q].param_name
          IN \/ /\ HasKey(m.dict, name)
                /\ Lookup(m.dict, name).kind \in {"Parameter", "Tensor"}
                /\ Lookup(m.dict, name).contiguous
             \/ /\ ~HasKey(m.dict, name)
                /\ HasKey(m._parameters, name)
                /\ Lookup(m._parameters, name).kind \in {"Parameter", "Tensor"}
                /\ Lookup(m._parameters, name).contiguous

\* C19: a rank whose call fails its local validation raises without giving
\* anything to the all-gather of that call; a rank waiting at a collective
\* the failed rank never reached is blocked there; and in a direct
\* shard_parameter or _shard_tensor call, once a rank has failed locally,
\* every rank that passes the validation comes to the all-gather and stays
\* blocked in it for ever.
C19_LocalFailureBlocksOthers ==
    /\ [][\A r \in Ranks :
            (pc[r] # "raised" /\ LocallyFailed(r)') =>
               round'[r] = round[r] /\ gathered' = gathered]_vars
    /\ [](\A r, q \in Ranks :
            (LocallyFailed(r) /\ pc[q] = "all_gather" /\ round[q] > round[r]) =>
               /\ gathered[round[q]][r] = None
               /\ Blocked(q))
    /\ \A r, q \in Ranks :
          (LocallyFailed(r) /\ PassesValidation(q)) ~> [](Blocked(q) /\ result[q] = None)

C19_Witness ==
    /\ entry = "shard_parameter"
    /\ \E r, q \in Ranks :
          /\ LocallyFailed(r)
          /\ err[r] = NotFound
          /\ round[r] = 0
          /\ PassesValidation(q)
          /\ Blocked(q)
          /\ gathered[1][r] = None

\* The hooks of one kind among a module's forward hooks.
HooksOf(hooks, kind) == {i \in 1 .. Len(hooks) : hooks[i].hook = kind}

\* C15: during and after a shard_module run, a module the loop has finished
\* has one reshard hook, with the target specification of its entry, exactly
\* if the plan has an output_plan that contains its path, and one collapse
\* hook exactly if the plan has a return_local_tensor list that contains its
\* path; it has no other hook, and a module not yet finished has none.
C15_HooksAsPlanned ==
    entry = "shard_module" =>
        \A r \in Ranks : \A prefix \in DOMAIN module[r] :
            LET hooks == module[r][prefix]._forward_hooks
                finished == \A i \in 1 .. Len(todo[r]) : todo[r][i] # prefix
                reshards == HooksOf(hooks, "_reshard_output")
                collects == HooksOf(hooks, "_collect_local_shard")
            IN /\ Cardinality(reshards) =
                     IF finished /\ WantsReshard(plan[r], prefix) THEN 1 ELSE 0
               /\ \A i \in reshards :
                     hooks[i].resharding_spec = plan[r].output_plan.items[prefix]
               /\ Cardinality(collects) =
                     IF finished /\ WantsCollect(plan[r], prefix) THEN 1 ELSE 0
               /\ Len(hooks) = Cardinality(reshards) + Cardinality(collects)

C15_Witness ==
    /\ entry = "shard_module"
    /\ tree = TwoLayer
    /\ \A r \in Ranks :
          /\ plan[r] = PlanB /\ pc[r] = "done"
          /\ module[r][<<>>]._forward_hooks = <<>>
          /\ Len(module[r][<<"linear">>]._forward_hooks) = 2
          /\ module[r][<<"head">>]._forward_hooks = <<>>

-----------------------------------------------------------------------------
(* Properties of SpecScope.                                                *)

\* The scopes open just before the i-th operation of the history.
OpenBefore(i) ==
    Cardinality({j \in 1 .. (i - 1) :
                    history[j].op = "enter" /\ history[j].result = "entered"})
    - Cardinality({j \in 1 .. (i - 1) : history[j].op = "exit"})

\* C8: at most one load_with_process_group scope is open at any time: an
\* entry attempted while a scope is open fails with the reentrancy error,
\* whatever groups the scopes were given.
C8_NoNestedScope ==
    /\ Len(scopes) <= 1
    /\ \A i \in 1 .. Len(history) :
          (history[i].op = "enter" /\ OpenBefore(i) > 0) =>
              history[i].result = "RuntimeError"

\* C9: when a scope is left, normally or by an exception of its body, the
\* override is absent, it is absent whenever no scope is open, and an entry
\* attempted right after a scope was left succeeds.
C9_ClearedOnEveryExit ==
    /\ scopes = <<>> => CURRENT_PROCESS_GROUP = None
    /\ \A i \in 1 .. Len(history) :
          history[i].op = "exit" =>
              /\ i = Len(history) => CURRENT_PROCESS_GROUP = None
              /\ (i < Len(history) /\ history[i + 1].op = "enter") =>
                    history[i + 1].result = "entered"
              /\ (i < Len(history) /\ history[i + 1].op = "get") =>
                    history[i + 1].group = DefaultGroup

C9_Witness ==
    \E i \in 1 .. Len(history) :
        /\ i < Len(history)
        /\ history[i].op = "exit"
        /\ history[i].result = "raised"
        /\ history[i].group # None
        /\ history[i + 1].op = "enter"
        /\ history[i + 1].result = "entered"

\* The operation that led to the current state.
LastEvent == history[Len(history)]

\* C17, as the spec states it: _get_current_process_group returns the group
\* the innermost open scope was given, whatever it is, and the default group
\* when no scope is open.
C17_ReturnsGroupGiven ==
    (history # <<>> /\ LastEvent.op = "get") =>
        LastEvent.group = IF scopes # <<>> THEN scopes[Len(scopes)] ELSE DefaultGroup

\* C17, amended: _get_current_process_group returns the group the
\* innermost open scope was given when that is a group, and the default
\* group when the scope was given None or when no scope is open.
C17_ReturnsGroupGivenOrDefault ==
    (history # <<>> /\ LastEvent.op = "get") =>
        LastEvent.group =
            IF scopes # <<>> /\ scopes[Len(scopes)] # None
            THEN scopes[Len(scopes)]
            ELSE DefaultGroup

C17_Witness ==
    /\ Len(history) = 4
    /\ history[1] = Event("enter", ProcessGroup("g1"), "entered")
    /\ history[2] = Event("get", ProcessGroup("g1"), "returned")
    /\ history[3].op = "exit"
    /\ history[4] = Event("get", DefaultGroup, "returned")

\* An entry has just been rejected with the reentrancy error.
Rejected(h) ==
    /\ h # <<>>
    /\ h[Len(h)].op = "enter"
    /\ h[Len(h)].result = "RuntimeError"

\* C20: an entry rejected with the reentrancy error leaves the override and
\* the open scopes as they were; the override is then the group of the
\* innermost open scope, and it becomes None only by the exit of a scope.
C20_RejectedEntryChangesNothing ==
    /\ [][(history' # history /\ Rejected(history')) =>
             /\ CURRENT_PROCESS_GROUP' = CURRENT_PROCESS_GROUP
             /\ scopes' = scopes]_vars
    /\ [](Rejected(history) =>
             /\ scopes # <<>>
             /\ CURRENT_PROCESS_GROUP = scopes[Len(scopes)]
             /\ CURRENT_PROCESS_GROUP # None)
    /\ [][(CURRENT_PROCESS_GROUP # None /\ CURRENT_PROCESS_GROUP' = None) =>
             /\ history'[Len(history')].op = "exit"
             /\ scopes' = SubSeq(scopes, 1, Len(scopes) - 1)]_vars

C20_Witness ==
    /\ Len(history) = 4
    /\ history[1] = Event("enter", ProcessGroup("g1"), "entered")
    /\ history[2] = Event("enter", ProcessGroup("g2"), "RuntimeError")
    /\ history[3] = Event("get", ProcessGroup("g1"), "returned")
    /\ history[4].op = "exit"
    /\ CURRENT_PROCESS_GROUP = None

-----------------------------------------------------------------------------
(* Properties of SpecHooks.                                                *)

\* C10: the collapse hook returns, for a sharded output, its local shard
\* with the split dimension removed exactly when the specification is a
\* chunk specification and the local extent along that dimension is 1, and
\* the local shard with its shape unchanged otherwise; for any other
\* output it returns None and the output stands.
C10_CollapseHook ==
    \A i \in 1 .. Len(hooked) :
        hooked[i].hook = "_collect_local_shard" =>
            LET in == hooked[i].input
                ret == hooked[i].returned
                d == in.sharding_spec.dim + 1
            IN IF in.kind # "ShardedTensor"
               THEN ret = None /\ hooked[i].result = in
               ELSE /\ ret.kind = "Tensor"
                    /\ hooked[i].result = ret
                    /\ IF in.sharding_spec.type = "ChunkShardingSpec" /\ in.shape[d] = 1
                       THEN /\ Len(ret.shape) = Len(in.shape) - 1
                            /\ \A j \in 1 .. Len(ret.shape) :
                                  ret.shape[j] = in.shape[IF j < d THEN j ELSE j + 1]
                       ELSE ret.shape = in.shape

C10_Witness ==
    /\ Len(hooked) = 1
    /\ hooked[1].hook = "_collect_local_shard"
    /\ hooked[1].input = ShardedOutput(C0, <<1, 16>>)
    /\ output = DenseOutput(<<16>>)

\* C14: a module whose path is in the plan's output_plan and in its
\* return_local_tensor list gets the reshard hook first and the collapse hook
\* second; in a forward computation the reshard hook runs on the module's
\* output and the collapse hook on what the reshard hook left, and the
\* collapse hook's result is the output of the module.
C14_ReshardBeforeCollapse ==
    (hpc = "registered" /\ WantsReshard(hplan, hprefix) /\ WantsCollect(hplan, hprefix)) =>
        LET target == hplan.output_plan.items[hprefix]
        IN /\ hmodule._forward_hooks = <<ReshardHook(target), CollectHook>>
           /\ hooked # <<>> =>
                 /\ Len(hooked) = 2
                 /\ hooked[1].hook = "_reshard_output"
                 /\ hooked[2].hook = "_collect_local_shard"
                 /\ hooked[2].input = hooked[1].result
                 /\ hooked[1].input.kind \in {"ShardedTensor", "_PartialTensor"} =>
                       /\ hooked[2].input.kind = "ShardedTensor"
                       /\ hooked[2].input.sharding_spec = target
                       /\ hooked[2].returned.kind = "Tensor"
                 /\ output = hooked[2].result

C14_Witness ==
    /\ hplan = PlanB
    /\ hprefix = <<"linear">>
    /\ Len(hooked) = 2
    /\ hooked[1].input = PartialOutput(<<2, 16>>)
    /\ hooked[2].input = ShardedOutput(C0, <<1, 16>>)
    /\ output = DenseOutput(<<16>>)

\* C16: the reshard hook returns, for a sharded tensor or a partial tensor,
\* output.reshard(target), a sharded tensor of the target specification of
\* the module's output_plan entry, and that is the output then; any other
\* output it returns as it is.
C16_ReshardHook ==
    \A i \in 1 .. Len(hooked) :
        hooked[i].hook = "_reshard_output" =>
            LET given == hooked[i].input
                ret == hooked[i].returned
                target == hplan.output_plan.items[hprefix]
            IN IF given.kind \in {"ShardedTensor", "_PartialTensor"}
               THEN /\ ret = reshard(given, target)
                    /\ ret.kind = "ShardedTensor"
                    /\ ret.sharding_spec = target
                    /\ hooked[i].result = ret
               ELSE /\ ret = given
                    /\ hooked[i].result = given

C16_Witness ==
    /\ hplan = PlanC
    /\ hprefix = <<>>
    /\ Len(hooked) = 1
    /\ hooked[1].hook = "_reshard_output"
    /\ hooked[1].input = PartialOutput(<<2, 16>>)
    /\ output = ShardedOutput(C1, <<2, 8>>)

====
